---- MODULE Spec2Model ----
(***************************************************************************)
(* Model of the MXR CAN protocol codec (src/services/canProtocolService.ts *)
(* over the tables of src/unnamed/part_000, the module imported as         *)
(* '../types'), and of the two panels of src/App.tsx that call it.         *)
(*                                                                         *)
(* Specifications:                                                         *)
(*   Spec          - the five codec operations called one at a time;       *)
(*   DecoderSpec   - the frame decoder panel (transcript, handleDecode);   *)
(*   GeneratorSpec - the command generator panel and its effect;           *)
(*   SharedSpec    - the codec called by several callers over payload      *)
(*                   buffers held by reference.                            *)
(*                                                                         *)
(* Representation of JavaScript values:                                    *)
(*   - an int32 (the result of |, &, <<, >>, getInt32) is an integer in    *)
(*     -2^31 .. 2^31-1;                                                    *)
(*   - a uint32 (the result of >>> 0, getUint32, a frame identifier) is a  *)
(*     record [hi, lo] of its two 16-bit halves, value hi * 2^16 + lo;     *)
(*   - a string is a TLA+ string, built with \o as the code concatenates;  *)
(*     a text that is parsed or cut is a sequence of one-character strings.*)
(***************************************************************************)
EXTENDS Integers, Sequences, FiniteSets, TLC

VARIABLES
    call,           \* the operation called or handler run last, with its arguments
    result,         \* what that call returned or threw
    origin,         \* the call that built the argument of this one, when it was built
    targetAddr,     \* App state: the target module address of the generator
    selectedRegAddr, \* App state: the value of the selected register option, a text
    inputValue,     \* App state: the value text of the generator
    generatedFrame, \* App state: <<>> for null, or <<frame>>
    rawHexInput,    \* App state: the transcript text of the decoder
    decodedResult,  \* App state: <<>> for null, or <<decoded frame>>
    alertMessage,   \* the message of the last alert shown, "" when none was
    heap,           \* the ArrayBuffers allocated so far, heap[a] the bytes of buffer a
    tables,         \* the module-level objects REGISTERS and ALARM_BITS as they are now
    held            \* the codec calls whose arguments and results callers still hold

\* the state of the two panels of App
generatorVars == <<targetAddr, selectedRegAddr, inputValue, generatedFrame>>

decoderVars == <<rawHexInput, decodedResult, alertMessage>>

appVars == <<generatorVars, decoderVars>>

\* the objects the codec and its callers share by reference
memVars == <<heap, tables, held>>

vars == <<call, result, origin, appVars, memVars>>

-----------------------------------------------------------------------------
(* Bounds of the model *)

\* the sampled bytes are 85 * i mod 256 for i in 0 .. MaxByteSample
MaxByteSample == 3

\* payload buffers of 0 .. MaxPayloadLen bytes are handed to decodeFrame
MaxPayloadLen == 9

\* transcripts of 0 .. 24 + MaxExtraChars hexadecimal characters are decoded
MaxExtraChars == 2

\* at most MaxBuffers payload buffers are allocated at a time
MaxBuffers == 2

\* callers hold the arguments and results of at most MaxCalls calls at a time
MaxCalls == 2

-----------------------------------------------------------------------------
(* 32-bit integer arithmetic of the JavaScript bitwise operators *)

RECURSIVE Pow2(_)
Pow2(n) == IF n <= 0 THEN 1 ELSE 2 * Pow2(n - 1)

Hi16(x) == (x \div 65536) % 65536

Lo16(x) == x % 65536

\* the int32 whose two's-complement halves are hi and lo
FromHalves(hi, lo) == IF hi >= 32768 THEN (hi - 65536) * 65536 + lo ELSE hi * 65536 + lo

\* ToInt32 of an integer-valued number that is given as an integer
ToInt32(x) == FromHalves(Hi16(x), Lo16(x))

\* ToInt32 of a uint32
U32ToInt32(u) == FromHalves(u.hi, u.lo)

RECURSIVE BitAnd(_, _)
BitAnd(a, b) ==
    IF a = 0 \/ b = 0 THEN 0
    ELSE (a % 2) * (b % 2) + 2 * BitAnd(a \div 2, b \div 2)

RECURSIVE BitOr(_, _)
BitOr(a, b) ==
    IF a = 0 THEN b
    ELSE IF b = 0 THEN a
    ELSE (IF a % 2 = 1 \/ b % 2 = 1 THEN 1 ELSE 0) + 2 * BitOr(a \div 2, b \div 2)

\* x & y on int32 operands
And32(x, y) == FromHalves(BitAnd(Hi16(x), Hi16(y)), BitAnd(Lo16(x), Lo16(y)))

\* x | y on int32 operands
Or32(x, y) == FromHalves(BitOr(Hi16(x), Hi16(y)), BitOr(Lo16(x), Lo16(y)))

\* x << 1 on an int32 operand: bit 30 becomes the sign bit
Shl1(x) ==
    LET low == x % 1073741824
    IN  IF (x \div 1073741824) % 2 = 1 THEN (low - 1073741824) * 2 ELSE low * 2

\* x << k on an int32 operand, 0 <= k <= 31
RECURSIVE Shl32(_, _)
Shl32(x, k) == IF k = 0 THEN x ELSE Shl1(Shl32(x, k - 1))

\* x >> k on an int32 operand: the sign-propagating shift
RECURSIVE Sar32(_, _)
Sar32(x, k) == IF k = 0 THEN x ELSE Sar32(x \div 2, k - 1)

\* x >>> 0 on an int32 operand: the same 32 bits read as a uint32
ToUint32(x) == [hi |-> Hi16(x), lo |-> Lo16(x)]

-----------------------------------------------------------------------------
(* Fixed protocol constants and tables (types) *)

MXR_ID_DEFAULT == 21        \* 0x15

MODULE_TYPE_FIXED == 129    \* 0x81

MONITOR_ADDR == 160         \* 0xA0

READ_ONLY_FLOAT == "READ_ONLY_FLOAT"

READ_ONLY_INT == "READ_ONLY_INT"

WRITE_ONLY_FLOAT == "WRITE_ONLY_FLOAT"

WRITE_ONLY_INT == "WRITE_ONLY_INT"

RegisterType == {READ_ONLY_FLOAT, READ_ONLY_INT, WRITE_ONLY_FLOAT, WRITE_ONLY_INT}

\* an entry without an options field has the empty map, which labels no value
NoOptions == [v \in {} |-> ""]

RegisterDefinition(address, name, type, options) ==
    [address |-> address, name |-> name, type |-> type, options |-> options]

\* keys: 0x0001 0x0002 0x0004 0x0006 0x0100 0x0101 0x0110 0x0400 0x0410 0x0411 0x0301
REGISTERS ==
    1    :> RegisterDefinition(1, "Output Voltage", READ_ONLY_FLOAT, NoOptions) @@
    2    :> RegisterDefinition(2, "Output Current", READ_ONLY_FLOAT, NoOptions) @@
    4    :> RegisterDefinition(4, "Input Voltage", READ_ONLY_FLOAT, NoOptions) @@
    6    :> RegisterDefinition(6, "Inlet Temp", READ_ONLY_FLOAT, NoOptions) @@
    256  :> RegisterDefinition(256, "Alarm Info", READ_ONLY_INT, NoOptions) @@
    257  :> RegisterDefinition(257, "Status", READ_ONLY_INT,
                0 :> "Power-on default" @@ 1 :> "Initialization" @@ 2 :> "Fault" @@
                3 :> "Standby" @@ 4 :> "Start Delay / Relay Action" @@
                6 :> "Soft Start" @@ 7 :> "Running") @@
    272  :> RegisterDefinition(272, "ON/OFF Status", READ_ONLY_INT, NoOptions) @@
    1024 :> RegisterDefinition(1024, "Control Command", WRITE_ONLY_INT,
                0 :> "Startup (0x00)" @@ 1 :> "Shutdown (0x01)") @@
    1040 :> RegisterDefinition(1040, "Set Output Voltage", WRITE_ONLY_FLOAT, NoOptions) @@
    1041 :> RegisterDefinition(1041, "Set Output Current", WRITE_ONLY_FLOAT, NoOptions) @@
    769  :> RegisterDefinition(769, "Troubleshooting", WRITE_ONLY_INT, NoOptions)

\* ALARM_BITS[i] of the code is ALARM_BITS[i + 1] here
ALARM_BITS ==
    << "Input Overvoltage", "Input Undervoltage", "Output Overvoltage", "Output Undervoltage",
       "Input Ext Overvoltage", "Input Ext Undervoltage", "Output Ext Overvoltage", "Output Ext Undervoltage",
       "Inlet Temp Low", "Reserved", "Internal OverTemp 1", "Internal OverTemp 2",
       "Inlet OverTemp", "Ref Voltage 1 Abnormal", "Ref Voltage 2 Abnormal", "Fan Failure",
       "Input Fast Overvolt", "Output Fast Overvolt", "Overcurrent Protection", "Emergency Stop",
       "CAN Comm Failure", "CAN Bus Fault", "Reserved", "Reserved",
       "Overvolt Disconnect", "Reserved", "Output Short Circuit", "Reserved",
       "Reserved", "Reserved", "Module Lockup", "Reserved" >>

-----------------------------------------------------------------------------
(* CanProtocolService: the frame identifier *)

\* mutant: the addresses are not masked to 8 bits
buildFrameId_NoMask(dstAddr, srcArg) ==
    LET srcAddr == IF srcArg = <<>> THEN MONITOR_ADDR ELSE srcArg[1]
        id1 == Or32(0, Shl32(And32(MXR_ID_DEFAULT, 31), 24))
        id2 == Or32(id1, Shl32(And32(MODULE_TYPE_FIXED, 255), 16))
        id3 == Or32(id2, Shl32(ToInt32(dstAddr), 8))
        id4 == Or32(id3, ToInt32(srcAddr))
    IN  ToUint32(id4)

\* srcArg is the optional second argument: <<>> when omitted, <<src>> when given
buildFrameId(dstAddr, srcArg) ==
    LET srcAddr == IF srcArg = <<>> THEN MONITOR_ADDR ELSE srcArg[1]
        id1 == Or32(0, Shl32(And32(MXR_ID_DEFAULT, 31), 24))
        id2 == Or32(id1, Shl32(And32(MODULE_TYPE_FIXED, 255), 16))
        id3 == Or32(id2, Shl32(And32(ToInt32(dstAddr), 255), 8))
        id4 == Or32(id3, And32(ToInt32(srcAddr), 255))
    IN  ToUint32(id4)

\* mutant: the destination address is masked without being shifted down
parseFrameId_NoShift(id) ==
    [mxrId      |-> And32(Sar32(U32ToInt32(id), 24), 31),
     moduleType |-> And32(Sar32(U32ToInt32(id), 16), 255),
     dstAddr    |-> And32(U32ToInt32(id), 255),
     srcAddr    |-> And32(U32ToInt32(id), 255)]

\* mutant: the manufacturer id is shifted down without being masked to 5 bits
parseFrameId_NoMxrMask(id) ==
    [mxrId      |-> Sar32(U32ToInt32(id), 24),
     moduleType |-> And32(Sar32(U32ToInt32(id), 16), 255),
     dstAddr    |-> And32(Sar32(U32ToInt32(id), 8), 255),
     srcAddr    |-> And32(U32ToInt32(id), 255)]

parseFrameId(id) ==
    [mxrId      |-> And32(Sar32(U32ToInt32(id), 24), 31),
     moduleType |-> And32(Sar32(U32ToInt32(id), 16), 255),
     dstAddr    |-> And32(Sar32(U32ToInt32(id), 8), 255),
     srcAddr    |-> And32(U32ToInt32(id), 255)]

-----------------------------------------------------------------------------
(* JavaScript numbers                                                      *)
(*                                                                         *)
(* A number handed to buildDataPayload is a dyadic [m, e], the value       *)
(* m * 2^e (every finite double is one).  A number read back from a        *)
(* payload is a record [kind, str, cls, units, cents, scale]: the value    *)
(* (units + cents / 100) * 2^scale, units and cents of the same sign;      *)
(* scale is 0 unless the magnitude is 2^31 or more.                        *)

Dyadic(m, e) == [m |-> m, e |-> e]

NumberValue(units, cents, scale) ==
    [kind |-> "number", str |-> "", cls |-> "finite",
     units |-> units, cents |-> cents, scale |-> scale]

NaNValue == [kind |-> "number", str |-> "", cls |-> "NaN", units |-> 0, cents |-> 0, scale |-> 0]

InfinityValue(neg) ==
    [kind |-> "number", str |-> "", cls |-> "Infinity",
     units |-> IF neg THEN -1 ELSE 1, cents |-> 0, scale |-> 0]

StringValue(s) ==
    [kind |-> "string", str |-> s, cls |-> "", units |-> 0, cents |-> 0, scale |-> 0]

\* the number of bits of a natural number
RECURSIVE BitLength(_)
BitLength(a) == IF a = 0 THEN 0 ELSE 1 + BitLength(a \div 2)

\* a / 2^k rounded to the nearest integer, ties to even (a >= 0, k >= 0)
RoundShiftEven(a, k) ==
    IF k = 0 THEN a
    ELSE IF k > 31 THEN 0
    ELSE IF k = 31 THEN (IF a > 1073741824 THEN 1 ELSE 0)
    ELSE LET d == Pow2(k)
             q == a \div d
             r == a % d
             half == d \div 2
         IN  IF r > half \/ (r = half /\ q % 2 = 1) THEN q + 1 ELSE q

\* m / 2^k truncated toward zero (k >= 0)
TruncShift(m, k) ==
    IF k >= 31 THEN (IF k = 31 /\ m = -2147483647 - 1 THEN -1 ELSE 0)
    ELSE IF m >= 0 THEN m \div Pow2(k)
    ELSE (m + Pow2(k) - 1) \div Pow2(k)

\* ToInt32 of the number m * 2^e: truncate, then wrap to 32 bits
DyadicToInt32(v) ==
    IF v.e >= 32 THEN 0
    ELSE IF v.e >= 0 THEN Shl32(v.m, v.e)
    ELSE TruncShift(v.m, -v.e)

\* the odd part of a dyadic: the same value with m odd (or m = 0)
RECURSIVE Reduce(_)
Reduce(v) ==
    IF v.m = 0 THEN Dyadic(0, 0)
    ELSE IF v.m % 2 = 0 THEN Reduce(Dyadic(v.m \div 2, v.e + 1))
    ELSE v

\* the IEEE-754 binary32 fields [sign, biased, frac] nearest to m * 2^e
ToFloat32(value) ==
    LET v    == Reduce(value)
        sign == IF v.m < 0 THEN 1 ELSE 0
        a    == IF v.m < 0 THEN -v.m ELSE v.m
        L    == BitLength(a)
        \* the 24-bit significand of a normal result, before any carry
        M0   == IF L <= 24 THEN a * Pow2(24 - L) ELSE RoundShiftEven(a, L - 24)
        E0   == L - 1 + v.e
        M    == IF M0 = 16777216 THEN 8388608 ELSE M0
        E    == IF M0 = 16777216 THEN E0 + 1 ELSE E0
    IN  IF a = 0 THEN [sign |-> 0, biased |-> 0, frac |-> 0]
        ELSE IF E0 >= -126
             THEN IF E > 127 THEN [sign |-> sign, biased |-> 255, frac |-> 0]
                  ELSE [sign |-> sign, biased |-> E + 127, frac |-> M - 8388608]
             ELSE \* subnormal: units of 2^-149; a carry to 2^23 is the least normal
                  LET f == IF v.e + 149 >= 0 THEN a * Pow2(v.e + 149)
                           ELSE RoundShiftEven(a, -(v.e + 149))
                  IN  [sign |-> sign, biased |-> f \div 8388608, frac |-> f % 8388608]

\* mutant: a / 2^k is cut to an integer instead of rounded
RoundShiftHalfUp_Truncating(a, k) ==
    IF k >= 31 THEN 0 ELSE a \div Pow2(k)

\* a / 2^k rounded to the nearest integer, ties upward (a >= 0, k >= 1)
RoundShiftHalfUp(a, k) ==
    IF k > 31 THEN 0
    ELSE IF k = 31 THEN (IF a >= 1073741824 THEN 1 ELSE 0)
    ELSE LET d == Pow2(k)
         IN  a \div d + (IF 2 * (a % d) >= d THEN 1 ELSE 0)

\* parseFloat(val.toFixed(2)) of the binary32 value with fields f
RoundTo2Decimals(f) ==
    LET m == IF f.biased = 0 THEN f.frac ELSE 8388608 + f.frac
        e == IF f.biased = 0 THEN -149 ELSE f.biased - 150
        s == IF f.sign = 1 THEN -1 ELSE 1
        n == RoundShiftHalfUp(m * 100, -e)
    IN  IF f.biased = 255 THEN (IF f.frac = 0 THEN InfinityValue(f.sign = 1) ELSE NaNValue)
        ELSE IF m = 0 THEN NumberValue(0, 0, 0)
        ELSE IF e >= 8 THEN NumberValue(s * m, 0, e)
        ELSE IF e >= 0 THEN NumberValue(s * m * Pow2(e), 0, 0)
        ELSE NumberValue(s * (n \div 100), s * (n % 100), 0)

-----------------------------------------------------------------------------
(* Number.prototype.toString(16), toUpperCase, padStart, join *)

HexDigits == << "0", "1", "2", "3", "4", "5", "6", "7",
                "8", "9", "A", "B", "C", "D", "E", "F" >>

\* n.toString(16).toUpperCase() of a uint32: its digits, most significant first
RECURSIVE HexOfU32(_)
HexOfU32(u) ==
    LET digit == HexDigits[(u.lo % 16) + 1]
        rest  == [hi |-> u.hi \div 16, lo |-> (u.hi % 16) * 4096 + u.lo \div 16]
    IN  IF rest.hi = 0 /\ rest.lo = 0 THEN digit ELSE HexOfU32(rest) \o digit

\* s.padStart(width, '0')
RECURSIVE PadStart0(_, _)
PadStart0(s, width) == IF Len(s) >= width THEN s ELSE PadStart0("0" \o s, width)

\* b.toString(16).padStart(2, '0').toUpperCase() of one byte
HexByte(b) == PadStart0(HexOfU32([hi |-> 0, lo |-> b]), 2)

\* parts.join(sep)
RECURSIVE Join(_, _)
Join(parts, sep) ==
    IF parts = <<>> THEN ""
    ELSE IF Len(parts) = 1 THEN parts[1]
    ELSE parts[1] \o sep \o Join(Tail(parts), sep)

\* Array.from(data).map(b => hex of b).join(' ')
PayloadHex(dataBytes) == Join([i \in 1..Len(dataBytes) |-> HexByte(dataBytes[i])], " ")

-----------------------------------------------------------------------------
(* DataView: big-endian reads and writes on a sequence of bytes;           *)
(* dataBytes[i + 1] here is byte i of the code                             *)

setUint16(registerAddr) == << Lo16(registerAddr) \div 256, Lo16(registerAddr) % 256 >>

\* mutant: the value is written least significant byte first
setInt32_LittleEndian(x) ==
    << Lo16(x) % 256, Lo16(x) \div 256, Hi16(x) % 256, Hi16(x) \div 256 >>

setInt32(x) == << Hi16(x) \div 256, Hi16(x) % 256, Lo16(x) \div 256, Lo16(x) % 256 >>

\* mutant: the float is written least significant byte first
setFloat32_LittleEndian(f) ==
    << f.frac % 256,
       (f.frac \div 256) % 256,
       (f.biased % 2) * 128 + f.frac \div 65536,
       f.sign * 128 + f.biased \div 2 >>

setFloat32(f) ==
    << f.sign * 128 + f.biased \div 2,
       (f.biased % 2) * 128 + f.frac \div 65536,
       (f.frac \div 256) % 256,
       f.frac % 256 >>

getUint8(b, at) == b[at + 1]

getUint16(b, at) == b[at + 1] * 256 + b[at + 2]

getInt32(b, at) == FromHalves(b[at + 1] * 256 + b[at + 2], b[at + 3] * 256 + b[at + 4])

getUint32(b, at) == [hi |-> b[at + 1] * 256 + b[at + 2], lo |-> b[at + 3] * 256 + b[at + 4]]

getFloat32(b, at) ==
    [sign   |-> b[at + 1] \div 128,
     biased |-> (b[at + 1] % 128) * 2 + b[at + 2] \div 128,
     frac   |-> (b[at + 2] % 128) * 65536 + b[at + 3] * 256 + b[at + 4]]

-----------------------------------------------------------------------------
(* CanProtocolService: the data payload *)

buildDataPayload(registerAddr, value, isFloat) ==
    << 0, 0 >> \o setUint16(registerAddr) \o
    (IF isFloat THEN setFloat32(ToFloat32(value)) ELSE setInt32(DyadicToInt32(value)))

-----------------------------------------------------------------------------
(* CanProtocolService: decoding *)

\* the outcome of a call: a returned value, or an exception thrown
Returned(v) == [outcome |-> "returned", value |-> v]

Threw(e) == [outcome |-> "threw", error |-> e]

\* mutant: 0xF1 is not taken for a response code
isResponse_NoF1(returnCode) == returnCode \in {240, 242}

isResponse(returnCode) == returnCode \in {240, 241, 242}    \* 0xF0, 0xF1, 0xF2

\* mutant: 0xF1 raises the error flag too
ReturnCodeStatus_F1Error(returnCode) ==
    IF isResponse(returnCode)
    THEN IF returnCode = 242
         THEN [isError |-> TRUE, errorDescription |-> "F2: Failure, discard frame"]
         ELSE IF returnCode = 241
              THEN [isError |-> TRUE, errorDescription |-> "F1: Forced to default value"]
              ELSE [isError |-> FALSE, errorDescription |-> ""]
    ELSE [isError |-> FALSE, errorDescription |-> ""]

\* isError and errorDescription, as set from the return code (byte 0)
ReturnCodeStatus(returnCode) ==
    IF isResponse(returnCode)
    THEN IF returnCode = 242
         THEN [isError |-> TRUE, errorDescription |-> "F2: Failure, discard frame"]
         ELSE IF returnCode = 241
              THEN [isError |-> FALSE, errorDescription |-> "F1: Forced to default value"]
              ELSE [isError |-> FALSE, errorDescription |-> ""]
    ELSE [isError |-> FALSE, errorDescription |-> ""]

\* mutant: the loop stops before bit 31
RECURSIVE alarms_StopAt31(_, _)
alarms_StopAt31(val, i) ==
    IF i >= 31 THEN <<>>
    ELSE (IF And32(Sar32(val, i), 1) # 0 THEN << ALARM_BITS[i + 1] >> ELSE <<>>)
         \o alarms_StopAt31(val, i + 1)

\* the labels of the bits i .. 31 set in val, in the order they are pushed
RECURSIVE alarms(_, _)
alarms(val, i) ==
    IF i >= 32 THEN <<>>
    ELSE (IF And32(Sar32(val, i), 1) # 0 THEN << ALARM_BITS[i + 1] >> ELSE <<>>)
         \o alarms(val, i + 1)

AlarmBitmap(val) ==
    IF Len(alarms(val, 0)) > 0 THEN Join(alarms(val, 0), ", ") ELSE "No Alarms"

\* mutant: the value 0 is taken for "no value" and never labelled
HasOption_NonZero(registerDef, val) ==
    val # 0 /\ val \in DOMAIN registerDef.options /\ registerDef.options[val] # ""

\* registerDef.options && registerDef.options[val]: a label that is not empty
HasOption(registerDef, val) ==
    val \in DOMAIN registerDef.options /\ registerDef.options[val] # ""

\* mutant: every read-only integer register is taken for the alarm bitmap
DecodeInt_AlarmByKind(registerDef, val) ==
    IF val \in DOMAIN registerDef.options /\ registerDef.options[val] # ""
    THEN StringValue(ToString(val) \o " (" \o registerDef.options[val] \o ")")
    ELSE IF registerDef.type = READ_ONLY_INT
         THEN StringValue(IF Len(alarms(val, 0)) > 0 THEN Join(alarms(val, 0), ", ")
                          ELSE "No Alarms")
         ELSE NumberValue(val, 0, 0)

\* the decoded value of the int32 val read for an integer register
DecodeInt(registerDef, val) ==
    IF HasOption(registerDef, val)
    THEN StringValue(ToString(val) \o " (" \o registerDef.options[val] \o ")")
    ELSE IF registerDef.address = 256
         THEN StringValue(AlarmBitmap(val))
         ELSE NumberValue(val, 0, 0)

isFloatType(registerDef) ==
    registerDef.type = READ_ONLY_FLOAT \/ registerDef.type = WRITE_ONLY_FLOAT

\* the decoded value of bytes 4-7 for a register the table defines
DecodeKnown(registerDef, dataBytes) ==
    IF isFloatType(registerDef)
    THEN RoundTo2Decimals(getFloat32(dataBytes, 4))
    ELSE DecodeInt(registerDef, getInt32(dataBytes, 4))

\* mutant: the fallback shows the register address instead of the value bytes
DecodeUnknown_ShowsRegister(dataBytes) ==
    StringValue("Unknown Reg: 0x" \o HexOfU32([hi |-> 0, lo |-> getUint16(dataBytes, 2)]))

DecodeUnknown(dataBytes) ==
    StringValue("Unknown Reg: 0x" \o HexOfU32(getUint32(dataBytes, 4)))

\* A DataView read past the end of the buffer throws a RangeError: byte 0 needs
\* 1 byte, the register 4, the value 8.  The view is over dataBytes.buffer, taken
\* here to hold exactly the bytes of dataBytes.
decodeFrame(id, dataBytes) ==
    LET idParts      == parseFrameId(id)
        returnCode   == getUint8(dataBytes, 0)
        registerAddr == getUint16(dataBytes, 2)
        status       == ReturnCodeStatus(returnCode)
        decodedValue == IF registerAddr \in DOMAIN REGISTERS
                        THEN DecodeKnown(REGISTERS[registerAddr], dataBytes)
                        ELSE DecodeUnknown(dataBytes)
    IN  IF Len(dataBytes) < 1 THEN Threw("RangeError")
        ELSE IF Len(dataBytes) < 4 THEN Threw("RangeError")
        ELSE IF Len(dataBytes) < 8 THEN Threw("RangeError")
        ELSE Returned([mxrId            |-> idParts.mxrId,
                       moduleType       |-> idParts.moduleType,
                       dstAddr          |-> idParts.dstAddr,
                       srcAddr          |-> idParts.srcAddr,
                       register         |-> registerAddr,
                       rawPayloadHex    |-> PayloadHex(dataBytes),
                       decodedValue     |-> decodedValue,
                       isError          |-> status.isError,
                       errorDescription |-> status.errorDescription])

\* id.toString(16).toUpperCase().padStart(8, '0') and the payload bytes in hex
frameToDisplayString(frame) ==
    "ID: 0x" \o PadStart0(HexOfU32(frame.id), 8) \o "  DATA: " \o PayloadHex(frame.data)

-----------------------------------------------------------------------------
(* Text the code examines character by character (parseInt, parseFloat,    *)
(* replace, substring, match): a sequence of one-character strings         *)

WhiteSpace == {" ", "\t", "\n", "\r"}

LowerHexDigits == << "0", "1", "2", "3", "4", "5", "6", "7",
                     "8", "9", "a", "b", "c", "d", "e", "f" >>

\* the value of the character c as a digit of the radix (at most 16), -1 when
\* it is no digit of it
DigitOf(c, radix) ==
    IF \E i \in 1..radix : HexDigits[i] = c
    THEN (CHOOSE i \in 1..radix : HexDigits[i] = c) - 1
    ELSE IF \E i \in 1..radix : LowerHexDigits[i] = c
         THEN (CHOOSE i \in 1..radix : LowerHexDigits[i] = c) - 1
         ELSE -1

\* the white space parseInt and parseFloat skip at the start of the text
RECURSIVE TrimStart(_)
TrimStart(s) == IF s # <<>> /\ s[1] \in WhiteSpace THEN TrimStart(Tail(s)) ELSE s

\* the longest prefix of s made of digits of the radix
RECURSIVE DigitPrefix(_, _)
DigitPrefix(s, radix) ==
    IF s = <<>> \/ DigitOf(s[1], radix) < 0 THEN <<>>
    ELSE <<s[1]>> \o DigitPrefix(Tail(s), radix)

\* the text after its first n characters
Drop(s, n) == SubSeq(s, n + 1, Len(s))

\* the natural number the digits spell, as [hi, lo]: hi * 2^16 + lo, lo < 2^16
RECURSIVE Magnitude(_, _, _)
Magnitude(digits, radix, acc) ==
    IF digits = <<>> THEN acc
    ELSE LET lo == acc.lo * radix + DigitOf(digits[1], radix)
         IN  Magnitude(Tail(digits), radix,
                       [hi |-> acc.hi * radix + lo \div 65536, lo |-> lo % 65536])

\* An integer parseInt returns is [nan, neg, hi, lo]: NaN, or the integer of
\* magnitude hi * 2^16 + lo, negative when neg.
NaNInteger == [nan |-> TRUE, neg |-> FALSE, hi |-> 0, lo |-> 0]

\* parseInt(s, radix); radix 0 stands for the call without a radix
parseInt(s, radix) ==
    LET t      == TrimStart(s)
        signed == t # <<>> /\ t[1] \in {"+", "-"}
        u      == IF signed THEN Tail(t) ELSE t
        prefix == radix \in {0, 16} /\ Len(u) >= 2 /\ u[1] = "0" /\ u[2] \in {"x", "X"}
        R      == IF radix = 0 THEN (IF prefix THEN 16 ELSE 10) ELSE radix
        digits == DigitPrefix(IF prefix THEN Drop(u, 2) ELSE u, R)
        mag    == Magnitude(digits, R, [hi |-> 0, lo |-> 0])
    IN  IF digits = <<>> THEN NaNInteger
        ELSE [nan |-> FALSE, neg |-> signed /\ t[1] = "-", hi |-> mag.hi, lo |-> mag.lo]

\* the integer of a parseInt result of magnitude under 2^31 (NaN: 0, as || 0
\* and the typed-array conversion make of it)
IntegerValue(n) ==
    IF n.nan THEN 0
    ELSE (IF n.neg THEN -1 ELSE 1) * (n.hi * 65536 + n.lo)

\* the dyadic of a parseInt result: a magnitude of 2^31 or more is halved while
\* it is even
RECURSIVE IntegerToDyadic(_, _)
IntegerToDyadic(n, e) ==
    IF n.hi < 32768 \/ n.lo % 2 = 1 THEN Dyadic(IntegerValue(n), e)
    ELSE IntegerToDyadic([nan |-> FALSE, neg |-> n.neg, hi |-> n.hi \div 2,
                          lo |-> (n.hi % 2) * 32768 + n.lo \div 2], e + 1)

\* the uint32 with the bits ToInt32 gives the parseInt result: NaN gives 0, a
\* negative integer its two's complement
IntegerToUint32(n) ==
    LET hi == n.hi % 65536
    IN  IF n.nan THEN [hi |-> 0, lo |-> 0]
        ELSE IF ~n.neg THEN [hi |-> hi, lo |-> n.lo]
        ELSE IF n.lo = 0 THEN [hi |-> (65536 - hi) % 65536, lo |-> 0]
        ELSE [hi |-> 65535 - hi, lo |-> 65536 - n.lo]

RECURSIVE Pow10(_)
Pow10(n) == IF n <= 0 THEN 1 ELSE 10 * Pow10(n - 1)

\* A decimal parseFloat returns is [nan, neg, hi, lo, k]: NaN, or the number
\* of magnitude (hi * 2^16 + lo) * 10^k, negative when neg.
NaNDecimal == [nan |-> TRUE, neg |-> FALSE, hi |-> 0, lo |-> 0, k |-> 0]

\* parseFloat(s): the longest prefix of the trimmed text that is a decimal
\* literal, [sign] digits [. digits] [e [sign] digits] with a digit in it
parseFloat(s) ==
    LET t        == TrimStart(s)
        signed   == t # <<>> /\ t[1] \in {"+", "-"}
        u        == IF signed THEN Tail(t) ELSE t
        ip       == DigitPrefix(u, 10)
        afterInt == Drop(u, Len(ip))
        hasDot   == afterInt # <<>> /\ afterInt[1] = "."
        fp       == IF hasDot THEN DigitPrefix(Tail(afterInt), 10) ELSE <<>>
        afterFr  == IF hasDot THEN Drop(afterInt, 1 + Len(fp)) ELSE afterInt
        hasE     == afterFr # <<>> /\ afterFr[1] \in {"e", "E"}
        expSign  == hasE /\ Len(afterFr) >= 2 /\ afterFr[2] \in {"+", "-"}
        ep       == IF hasE THEN DigitPrefix(Drop(afterFr, IF expSign THEN 2 ELSE 1), 10)
                    ELSE <<>>
        expMag   == Magnitude(ep, 10, [hi |-> 0, lo |-> 0]).lo
        exp      == IF expSign /\ afterFr[2] = "-" THEN -expMag ELSE expMag
        mag      == Magnitude(ip \o fp, 10, [hi |-> 0, lo |-> 0])
    IN  IF ip = <<>> /\ fp = <<>> THEN NaNDecimal
        ELSE [nan |-> FALSE, neg |-> signed /\ t[1] = "-",
              hi |-> mag.hi, lo |-> mag.lo, k |-> exp - Len(fp)]

\* the binary expansion of acc + r / d, acc = floor(x * 2^j): exact when the
\* remainder runs out, else 26 bits of it and one more bit set for the rest
RECURSIVE BinaryExpansion(_, _, _, _)
BinaryExpansion(acc, r, d, j) ==
    IF r = 0 THEN Dyadic(acc, -j)
    ELSE IF BitLength(acc) >= 26 THEN Dyadic(2 * acc + 1, -(j + 1))
    ELSE BinaryExpansion(2 * acc + (IF 2 * r >= d THEN 1 ELSE 0), (2 * r) % d, d, j + 1)

\* The number parseFloat returned, as setFloat32 sees it.  parseFloat gives
\* the double nearest n * 10^k and setFloat32 rounds that to binary32; for a
\* decimal of at most 8 fraction digits the distance of n * 10^k from a
\* binary32 rounding boundary, when it is not on one, is more than the error
\* of the double, so the dyadic here rounds to the same binary32.  (With a
\* fraction or an exponent n < 2^30, -8 <= k and n * 10^k < 2^31; without, n is
\* as IntegerToDyadic takes it.)
DecimalToDyadic(x) ==
    LET n == x.hi * 65536 + x.lo
        d == Pow10(-x.k)
        v == IF x.k > 0 THEN Dyadic(n * Pow10(x.k), 0)
             ELSE BinaryExpansion(n \div d, n % d, d, 0)
    IN  IF x.k = 0
        THEN IntegerToDyadic([nan |-> FALSE, neg |-> x.neg, hi |-> x.hi, lo |-> x.lo], 0)
        ELSE Dyadic(IF x.neg THEN -v.m ELSE v.m, v.e)

\* s.replace(/\s+/g, '')
RemoveWhiteSpace(s) == SelectSeq(s, LAMBDA c : c \notin WhiteSpace)

\* s.replace(/0x/g, ''): the matches left to right; what a removal joins is
\* not matched again
RECURSIVE Remove0x(_)
Remove0x(s) ==
    IF Len(s) < 2 THEN s
    ELSE IF s[1] = "0" /\ s[2] = "x" THEN Remove0x(Drop(s, 2))
    ELSE <<s[1]>> \o Remove0x(Tail(s))

\* s.substring(start, end) for 0 <= start <= end
substring(s, start, end) == SubSeq(s, start + 1, IF end < Len(s) THEN end ELSE Len(s))

\* s.match(/.{1,2}/g) of a text without line breaks: its characters by twos
BytePairs(s) ==
    [i \in 1..((Len(s) + 1) \div 2) |-> substring(s, 2 * i - 2, 2 * i)]

\* n.toString(16).padStart(4, '0') of a number under 2^16, as characters
HexChars4(n) ==
    << LowerHexDigits[((n \div 4096) % 16) + 1], LowerHexDigits[((n \div 256) % 16) + 1],
       LowerHexDigits[((n \div 16) % 16) + 1], LowerHexDigits[(n % 16) + 1] >>

-----------------------------------------------------------------------------
(* App: the command generator and the frame decoder *)

\* the value of each option of the register dropdown
registerOptions ==
    {[value |-> <<"0", "x">> \o HexChars4(REGISTERS[k].address), type |-> REGISTERS[k].type] :
        k \in DOMAIN REGISTERS}

\* mutant: a read request carries the value of the text
payloadValue_NotZeroed(isReadRequest, numValue) == numValue

payloadValue(isReadRequest, numValue) == IF isReadRequest THEN Dyadic(0, 0) ELSE numValue

\* The effect that follows a change of the generator inputs: the frame for
\* them; the frame shown before stays when the table has no such register.
GenerateFrame(target, regText, valueText, previous) ==
    LET regAddrInt    == IntegerValue(parseInt(regText, 16))
        register      == REGISTERS[regAddrInt]
        isFloat       == register.type = WRITE_ONLY_FLOAT \/ register.type = READ_ONLY_FLOAT
        asFloat       == parseFloat(valueText)
        asInt         == parseInt(valueText, 10)
        numValue      == IF isFloat
                         THEN (IF asFloat.nan THEN Dyadic(0, 0) ELSE DecimalToDyadic(asFloat))
                         ELSE (IF asInt.nan THEN Dyadic(0, 0) ELSE IntegerToDyadic(asInt, 0))
        isReadRequest == register.type = READ_ONLY_FLOAT \/ register.type = READ_ONLY_INT
        id            == buildFrameId(target, <<>>)
        data          == buildDataPayload(regAddrInt, payloadValue(isReadRequest, numValue),
                                          isFloat /\ ~isReadRequest)
    IN  IF parseInt(regText, 16).nan \/ regAddrInt \notin DOMAIN REGISTERS THEN previous
        ELSE << [id |-> id, data |-> data] >>

\* clean of handleDecode
CleanTranscript(raw) == Remove0x(RemoveWhiteSpace(raw))

\* new Uint8Array(pairs.map(byte => parseInt(byte, 16))): NaN is stored as 0,
\* an integer modulo 256
TranscriptBytes(dataHex) ==
    LET pairs == BytePairs(dataHex)
    IN  [i \in 1..Len(pairs) |-> IntegerValue(parseInt(pairs[i], 16)) % 256]

-----------------------------------------------------------------------------
(* The inputs the callers draw from *)

ByteSamples == {(i * 85) % 256 : i \in 0..MaxByteSample}

\* 32-bit words: every combination of the sampled bytes, and words of note
\* (700.0, small integers, the int32 extremes, infinities, NaN, rounding ties,
\* 0.1, 12.34, just under 0.005, 2^31 and the float below it, a subnormal)
SpecialWords ==
    { <<68, 47, 0, 0>>, <<0, 0, 0, 7>>, <<0, 0, 0, 5>>, <<0, 0, 0, 1>>, <<0, 0, 0, 2>>,
      <<0, 0, 0, 6>>, <<0, 0, 1, 0>>, <<128, 0, 0, 0>>, <<127, 255, 255, 255>>,
      <<127, 128, 0, 0>>, <<255, 128, 0, 0>>, <<127, 192, 0, 0>>,
      <<62, 0, 0, 0>>, <<190, 0, 0, 0>>, <<61, 204, 204, 205>>, <<65, 69, 112, 164>>,
      <<59, 163, 215, 10>>, <<79, 0, 0, 0>>, <<78, 255, 255, 255>>, <<0, 0, 0, 3>>,
      <<128, 0, 0, 5>>, <<64, 0, 0, 0>> }

Words == {<<a, b, c, d>> : a \in ByteSamples, b \in ByteSamples,
                           c \in ByteSamples, d \in ByteSamples} \cup SpecialWords

\* numbers given for an address: in and out of the byte range, of either sign
AddrInputs == ByteSamples \cup {1, 2, 160, 256, 257, 511, 65537, -1, -256, -257,
                                2147483647, -2147483647 - 1}

\* identifiers: 0x1581A002, 0x158101A0, 0, 0xFFFFFFFF, 0x9581A002, 0x1F00FF00,
\* and every combination of the sampled bytes
IdInputs ==
    { [hi |-> 5505, lo |-> 40962], [hi |-> 5505, lo |-> 416], [hi |-> 0, lo |-> 0],
      [hi |-> 65535, lo |-> 65535], [hi |-> 38273, lo |-> 40962], [hi |-> 7936, lo |-> 65280] }
    \cup {getUint32(w, 0) : w \in Words \ SpecialWords}

\* register addresses: those of the table, and 0x9999, 0x0000, 0x0003, 0xFFFF
RegAddrInputs == DOMAIN REGISTERS \cup {39321, 0, 3, 65535}

\* return codes: command, the three responses, their neighbours, the sampled bytes
ReturnCodeInputs == {0, 240, 241, 242, 1, 239, 243} \cup ByteSamples

\* values given to buildDataPayload: every sampled word as an int32, and
\* numbers that are no int32 (fractions, 2^24 + 1, 2^32 + 5, 2^-130, 2^40)
ValueInputs ==
    {Dyadic(getInt32(w, 0), 0) : w \in Words} \cup
    { Dyadic(1, -3), Dyadic(-1, -3), Dyadic(3, -1), Dyadic(-7, -2), Dyadic(1234567, -10),
      Dyadic(16777217, 0), Dyadic(16777219, 0), Dyadic(33554433, 4), Dyadic(1, 32),
      Dyadic(5, 0), Dyadic(1, -130), Dyadic(8388607, -150), Dyadic(1, 40), Dyadic(-3, 127),
      Dyadic(1, 128), Dyadic(1, -150), Dyadic(3, -150), Dyadic(700, 0), Dyadic(5, -10) }

\* 8-byte payloads
Payloads ==
    {<<rc, b1>> \o setUint16(reg) \o w :
        rc \in ReturnCodeInputs, b1 \in {0, 242}, reg \in RegAddrInputs, w \in Words}

\* buffers of every length 0 .. MaxPayloadLen: a payload cut short, or followed by 0xFF
Buffers ==
    {[i \in 1..n |-> IF i <= 8 THEN (<<rc, 0>> \o setUint16(reg) \o w)[i] ELSE 255] :
        rc \in {0, 240, 242}, reg \in {1, 256, 257, 39321}, w \in SpecialWords,
        n \in 0..MaxPayloadLen}

NoCall == [op |-> "none"]

\* what the target address field holds: nothing, addresses in and out of the
\* byte range, a negative number, a fraction
TargetTexts ==
    { <<>>, <<"0">>, <<"1">>, <<"7">>, <<"9", "9">>, <<"1", "6", "0">>, <<"2", "5", "5">>,
      <<"2", "5", "6">>, <<"5", "1", "1">>, <<"-", "1">>, <<"2", ".", "5">> }

\* what the value field holds: nothing, integers, fractions, numbers with an
\* exponent, integers at and beyond the int32 range
ValueTexts ==
    { <<>>,
      <<"0">>,
      <<"1">>,
      <<"7">>,
      <<"-", "3">>,
      <<"1", "2", ".", "5">>,
      <<"0", ".", "1">>,
      <<"7", "0", "0">>,
      <<"1", "e", "3">>,
      <<".", "5">>,
      <<"0", ".", "0", "0", "5">>,
      <<"-", "1", "2", ".", "3", "4">>,
      <<"3", "0", "0", "0", "0", "0", "0", "0", "0", "0">>,
      <<"2", "1", "4", "7", "4", "8", "3", "6", "4", "7">>,
      <<"-", "2", "1", "4", "7", "4", "8", "3", "6", "4", "8">>,
      <<"1", "6", "7", "7", "7", "2", "1", "7">>,
      <<"1", "0", "0", ".", "1", "2", "5">>,
      <<"2", ".", "5", "e", "-", "1">>,
      <<"0", ".", "3", "0", "0", "0", "0", "0", "0", "1">> }

\* the text of the key k of an options object (the keys of the table are
\* single digits)
KeyText(k) == << HexDigits[k + 1] >>

\* the bytes in hexadecimal, two upper-case characters each
HexText(bytes) ==
    [i \in 1..(2 * Len(bytes)) |->
        HexDigits[(IF i % 2 = 1 THEN bytes[(i + 1) \div 2] \div 16
                               ELSE bytes[i \div 2] % 16) + 1]]

\* the text with its letters A-F in lower case
LowerCase(s) ==
    [i \in 1..Len(s) |-> IF DigitOf(s[i], 16) >= 0 THEN LowerHexDigits[DigitOf(s[i], 16) + 1]
                                                  ELSE s[i]]

\* the text of the Load Example button: "1581A002 F0000001442F0000"
ExampleTranscript ==
    HexText(<<21, 129, 160, 2>>) \o <<" ">> \o HexText(<<240, 0, 0, 1, 68, 47, 0, 0>>)

\* identifier and payload written out, 24 characters: identifiers 0x1581A002,
\* 0xFFFFFFFF, 0x158101A0; payloads for a float register, an error response, an
\* unknown register and a status label
FrameTexts ==
    {HexText(id) \o HexText(data) :
        id \in {<<21, 129, 160, 2>>, <<255, 255, 255, 255>>, <<21, 129, 1, 160>>},
        data \in {<<240, 0, 0, 1, 68, 47, 0, 0>>, <<242, 0, 1, 0, 0, 0, 0, 5>>,
                  <<0, 0, 153, 153, 0, 0, 1, 0>>, <<241, 0, 1, 1, 0, 0, 0, 7>>}}

\* what is typed or pasted into the transcript field: a frame text cut short
\* or followed by more characters, in lower case, with blanks, line breaks and
\* 0x prefixes, and with a character that is no hexadecimal digit
Transcripts ==
    {SubSeq(t \o [i \in 1..MaxExtraChars |-> "F"], 1, n) :
        t \in FrameTexts, n \in 0..(24 + MaxExtraChars)} \cup
    {LowerCase(t) : t \in FrameTexts} \cup
    {SubSeq(t, 1, 8) \o <<" ">> \o SubSeq(t, 9, 24) : t \in FrameTexts} \cup
    {<<"0", "x">> \o SubSeq(t, 1, 8) \o <<"\n", "0", "x">> \o SubSeq(t, 9, 24) :
        t \in FrameTexts} \cup
    {SubSeq(t, 1, 8) \o <<" ", " ">> \o SubSeq(t, 9, 20) \o <<"\t">> \o SubSeq(t, 21, 24)
        \o <<" ", "0", "0">> : t \in FrameTexts} \cup
    {[t EXCEPT ![1] = "g"] : t \in FrameTexts} \cup
    {[t EXCEPT ![9] = "-"] : t \in FrameTexts} \cup
    {<<"0", "X">> \o t : t \in FrameTexts}

-----------------------------------------------------------------------------
(* The callers.  The codec is synchronous: a caller makes a call when it    *)
(* holds no result, may hand a built identifier or payload on to the       *)
(* inverse operation, and then lets the transient value go.                *)

\* the state after App is mounted and its generator effect has run once
Init ==
    /\ call = NoCall
    /\ result = [outcome |-> "none"]
    /\ origin = NoCall
    /\ targetAddr = 1
    /\ selectedRegAddr = <<"0", "x", "0", "4", "1", "0">>
    /\ inputValue = <<"0">>
    /\ generatedFrame = GenerateFrame(1, <<"0", "x", "0", "4", "1", "0">>, <<"0">>, <<>>)
    /\ rawHexInput = <<>>
    /\ decodedResult = <<>>
    /\ alertMessage = ""
    /\ heap = <<>>
    /\ tables = [REGISTERS |-> REGISTERS, ALARM_BITS |-> ALARM_BITS]
    /\ held = <<>>

BuildFrameId ==
    /\ call = NoCall
    /\ UNCHANGED <<appVars, memVars>>
    /\ \E dstAddr \in AddrInputs, srcArg \in {<<>>} \cup {<<a>> : a \in AddrInputs} :
         /\ call' = [op |-> "buildFrameId", dstAddr |-> dstAddr, srcArg |-> srcArg]
         /\ result' = Returned(buildFrameId(dstAddr, srcArg))
         /\ origin' = NoCall

\* the identifier is one received, or the one buildFrameId has just returned
ParseFrameId ==
    /\ UNCHANGED <<appVars, memVars>>
    /\ \/ /\ call = NoCall
          /\ \E id \in IdInputs :
               /\ call' = [op |-> "parseFrameId", id |-> id]
               /\ result' = Returned(parseFrameId(id))
               /\ origin' = NoCall
       \/ /\ call.op = "buildFrameId"
          /\ call' = [op |-> "parseFrameId", id |-> result.value]
          /\ result' = Returned(parseFrameId(result.value))
          /\ origin' = call

BuildDataPayload ==
    /\ call = NoCall
    /\ UNCHANGED <<appVars, memVars>>
    /\ \E registerAddr \in RegAddrInputs \cup {65537, -1}, value \in ValueInputs,
          isFloat \in BOOLEAN :
         /\ call' = [op |-> "buildDataPayload", registerAddr |-> registerAddr,
                     value |-> value, isFloat |-> isFloat]
         /\ result' = Returned(buildDataPayload(registerAddr, value, isFloat))
         /\ origin' = NoCall

\* the payload is one received (every sampled payload under the identifier
\* 0x1581A002, a few payloads under every sampled identifier), or the one
\* buildDataPayload has just returned
DecodeFrame ==
    /\ UNCHANGED <<appVars, memVars>>
    /\ \/ /\ call = NoCall
          /\ \E id \in {[hi |-> 5505, lo |-> 40962]}, dataBytes \in Payloads \cup Buffers :
               /\ call' = [op |-> "decodeFrame", id |-> id, dataBytes |-> dataBytes]
               /\ result' = decodeFrame(id, dataBytes)
               /\ origin' = NoCall
       \/ /\ call = NoCall
          /\ \E id \in IdInputs, rc \in {0, 240, 242}, reg \in {1, 256},
                w \in {<<68, 47, 0, 0>>, <<0, 0, 0, 5>>} :
               LET dataBytes == <<rc, 0>> \o setUint16(reg) \o w
               IN  /\ call' = [op |-> "decodeFrame", id |-> id, dataBytes |-> dataBytes]
                   /\ result' = decodeFrame(id, dataBytes)
                   /\ origin' = NoCall
       \/ /\ call.op = "buildDataPayload"
          /\ \E id \in {[hi |-> 5505, lo |-> 416], [hi |-> 0, lo |-> 0]} :
               /\ call' = [op |-> "decodeFrame", id |-> id, dataBytes |-> result.value]
               /\ result' = decodeFrame(id, result.value)
               /\ origin' = call

FrameToDisplayString ==
    /\ call = NoCall
    /\ UNCHANGED <<appVars, memVars>>
    /\ \E id \in IdInputs, rc \in {0, 240}, reg \in {1, 39321}, w \in SpecialWords :
         LET frame == [id |-> id, data |-> <<rc, 0>> \o setUint16(reg) \o w]
         IN  /\ call' = [op |-> "frameToDisplayString", frame |-> frame]
             /\ result' = Returned(frameToDisplayString(frame))
             /\ origin' = NoCall

\* the caller is done with the value the last call returned
Discard ==
    /\ call # NoCall
    /\ UNCHANGED <<appVars, memVars>>
    /\ call' = NoCall
    /\ result' = [outcome |-> "none"]
    /\ origin' = NoCall

Next ==
    \/ BuildFrameId
    \/ ParseFrameId
    \/ BuildDataPayload
    \/ DecodeFrame
    \/ FrameToDisplayString
    \/ Discard

Spec == Init /\ [][Next]_vars

-----------------------------------------------------------------------------
(* App: the frame decoder panel *)

\* onChange of the transcript field
SetRawHexInput ==
    /\ \E text \in Transcripts : rawHexInput' = text
    /\ call' = NoCall
    /\ result' = [outcome |-> "none"]
    /\ alertMessage' = ""
    /\ UNCHANGED <<origin, decodedResult, generatorVars, memVars>>

\* onClick of Load Example
LoadExample ==
    /\ rawHexInput' = ExampleTranscript
    /\ call' = NoCall
    /\ result' = [outcome |-> "none"]
    /\ alertMessage' = ""
    /\ UNCHANGED <<origin, decodedResult, generatorVars, memVars>>

\* handleDecode: call.invoked holds the codec call the handler made, result
\* what its try block came to
HandleDecode ==
    LET clean     == CleanTranscript(rawHexInput)
        idHex     == substring(clean, 0, 8)
        dataHex   == substring(clean, 8, 24)
        id        == IntegerToUint32(parseInt(idHex, 16))
        dataBytes == TranscriptBytes(dataHex)
        invalid   == Len(idHex) # 8 \/ Len(dataHex) # 16
        outcome   == IF invalid
                     THEN Threw("Invalid Length. Format: ID(8 chars) DATA(16 chars)")
                     ELSE decodeFrame(id, dataBytes)
    IN  /\ call' = [op |-> "handleDecode", rawHexInput |-> rawHexInput,
                    invoked |-> IF invalid THEN <<>>
                                ELSE <<[op |-> "decodeFrame", id |-> id,
                                        dataBytes |-> dataBytes]>>]
        /\ result' = outcome
        /\ decodedResult' = IF outcome.outcome = "returned" THEN <<outcome.value>> ELSE <<>>
        /\ alertMessage' = IF outcome.outcome = "returned" THEN ""
                           ELSE "Decode Error: " \o outcome.error
        /\ UNCHANGED <<origin, rawHexInput, generatorVars, memVars>>

DecoderNext ==
    \/ SetRawHexInput
    \/ LoadExample
    \/ HandleDecode

DecoderSpec == Init /\ [][DecoderNext]_vars

-----------------------------------------------------------------------------
(* The codec called by several callers in any order, with the payload       *)
(* buffers as the objects they are: a Uint8Array handed to the codec or     *)
(* returned by it is a reference into heap.  A call is synchronous and runs *)
(* to its end before the next one starts.                                   *)

\* mutant: one module-level scratch buffer is used for every payload built
NewBuffer_Scratch(h) == 1

\* new ArrayBuffer(8): a buffer that did not exist before
NewBuffer(h) == Len(h) + 1

\* what a caller keeps of a call: the arguments, the buffer handed in (0 for
\* none) with the bytes it held then, the buffer returned (0 for none), and
\* the value returned when it is no buffer
HeldCall(op, args, input, inputBytes, output, value) ==
    [op |-> op, args |-> args, input |-> input, inputBytes |-> inputBytes,
     output |-> output, value |-> value]

\* a caller wraps the 8 bytes it received in a Uint8Array
ReceivePayload ==
    /\ Len(heap) < MaxBuffers
    /\ \E bytes \in {<<240, 0, 0, 1, 68, 47, 0, 0>>, <<242, 0, 1, 0, 0, 0, 0, 5>>} :
         heap' = Append(heap, bytes)
    /\ UNCHANGED <<call, result, origin, appVars, tables, held>>

CallBuildFrameId ==
    /\ Len(held) < MaxCalls
    /\ \E dstAddr \in {1, 511} :
         held' = Append(held, HeldCall("buildFrameId", <<dstAddr, <<>>>>, 0, <<>>, 0,
                                       Returned(buildFrameId(dstAddr, <<>>))))
    /\ UNCHANGED <<call, result, origin, appVars, heap, tables>>

CallParseFrameId ==
    /\ Len(held) < MaxCalls
    /\ \E id \in {[hi |-> 5505, lo |-> 40962], [hi |-> 65535, lo |-> 65535]} :
         held' = Append(held, HeldCall("parseFrameId", <<id>>, 0, <<>>, 0,
                                       Returned(parseFrameId(id))))
    /\ UNCHANGED <<call, result, origin, appVars, heap, tables>>

\* the payload is written into a new buffer and a view on that buffer returned
CallBuildDataPayload ==
    /\ Len(held) < MaxCalls
    /\ \E args \in {<<1040, Dyadic(700, 0), TRUE>>, <<1024, Dyadic(1, 0), FALSE>>,
                     <<769, Dyadic(1, 0), FALSE>>} :
         LET buffer == NewBuffer(heap)
             bytes  == buildDataPayload(args[1], args[2], args[3])
         IN  /\ buffer <= MaxBuffers
             /\ heap' = IF buffer <= Len(heap) THEN [heap EXCEPT ![buffer] = bytes]
                        ELSE Append(heap, bytes)
             /\ held' = Append(held, HeldCall("buildDataPayload", args, 0, <<>>, buffer,
                                               [outcome |-> "none"]))
    /\ UNCHANGED <<call, result, origin, appVars, tables>>

\* the payload is read through a DataView on the buffer handed in; the tables
\* are read; the alarms array and the returned object are new
CallDecodeFrame ==
    /\ Len(held) < MaxCalls
    /\ \E id \in {[hi |-> 5505, lo |-> 40962]}, dataBytes \in DOMAIN heap :
         held' = Append(held, HeldCall("decodeFrame", <<id>>, dataBytes, heap[dataBytes], 0,
                                       decodeFrame(id, heap[dataBytes])))
    /\ UNCHANGED <<call, result, origin, appVars, heap, tables>>

\* the payload of the frame is copied by Array.from and read
CallFrameToDisplayString ==
    /\ Len(held) < MaxCalls
    /\ \E id \in {[hi |-> 5505, lo |-> 416]}, data \in DOMAIN heap :
         held' = Append(held, HeldCall("frameToDisplayString", <<id>>, data, heap[data], 0,
                    Returned(frameToDisplayString([id |-> id, data |-> heap[data]]))))
    /\ UNCHANGED <<call, result, origin, appVars, heap, tables>>

\* a caller lets go of the oldest call it held
Forget ==
    /\ held # <<>>
    /\ held' = Tail(held)
    /\ UNCHANGED <<call, result, origin, appVars, heap, tables>>

\* no caller holds a buffer any more: the buffers are garbage
Collect ==
    /\ held = <<>>
    /\ heap # <<>>
    /\ heap' = <<>>
    /\ UNCHANGED <<call, result, origin, appVars, tables, held>>

SharedNext ==
    \/ ReceivePayload
    \/ CallBuildFrameId
    \/ CallParseFrameId
    \/ CallBuildDataPayload
    \/ CallDecodeFrame
    \/ CallFrameToDisplayString
    \/ Forget
    \/ Collect

SharedSpec == Init /\ [][SharedNext]_vars

-----------------------------------------------------------------------------
(* App: the command generator panel.  Each handler sets its state and the   *)
(* effect on [targetAddr, selectedRegAddr, inputValue] follows.             *)

\* onChange of the target address field: parseInt(e.target.value) || 0
SetTargetAddr ==
    /\ \E text \in TargetTexts :
         LET target == IntegerValue(parseInt(text, 0))
         IN  /\ targetAddr' = target
             /\ generatedFrame' = GenerateFrame(target, selectedRegAddr, inputValue,
                                                generatedFrame)
    /\ UNCHANGED <<call, result, origin, selectedRegAddr, inputValue, decoderVars, memVars>>

\* onChange of the register dropdown: the value text is reset to "0"
SelectRegister ==
    /\ \E option \in registerOptions :
         /\ selectedRegAddr' = option.value
         /\ inputValue' = <<"0">>
         /\ generatedFrame' = GenerateFrame(targetAddr, option.value, <<"0">>, generatedFrame)
    /\ UNCHANGED <<call, result, origin, targetAddr, decoderVars, memVars>>

\* onChange of the value field: a dropdown of the option keys when the selected
\* register has options, a number field otherwise
SetInputValue ==
    /\ LET register == REGISTERS[IntegerValue(parseInt(selectedRegAddr, 16))]
           texts    == IF register.options # NoOptions
                       THEN {KeyText(k) : k \in DOMAIN register.options}
                       ELSE ValueTexts
       IN  \E text \in texts :
             /\ inputValue' = text
             /\ generatedFrame' = GenerateFrame(targetAddr, selectedRegAddr, text,
                                                generatedFrame)
    /\ UNCHANGED <<call, result, origin, targetAddr, selectedRegAddr, decoderVars,
                   memVars>>

GeneratorNext ==
    \/ SetTargetAddr
    \/ SelectRegister
    \/ SetInputValue

GeneratorSpec == Init /\ [][GeneratorNext]_vars

-----------------------------------------------------------------------------
(* Properties *)

\* the int32 that four bytes hold in two's complement, most significant first
SignedOfBytes(b4, b5, b6, b7) ==
    LET low31 == (b4 % 128) * 16777216 + b5 * 65536 + b6 * 256 + b7
    IN  IF b4 >= 128 THEN (low31 - 2147483647) - 1 ELSE low31

IsByte(b) == b \in 0..255

\* C1: parsing the identifier built for destination dst and source src, both
\* bytes, gives mxrId 0x15, moduleType 0x81, dstAddr dst and srcAddr src.
C1_FrameIdRoundTrip ==
    ( /\ call.op = "parseFrameId"
      /\ origin.op = "buildFrameId"
      /\ origin.srcArg # <<>>
      /\ IsByte(origin.dstAddr)
      /\ IsByte(origin.srcArg[1]) )
    => result.value = [mxrId |-> 21, moduleType |-> 129,
                       dstAddr |-> origin.dstAddr, srcAddr |-> origin.srcArg[1]]

C1_Witness ==
    /\ call.op = "parseFrameId"
    /\ origin.op = "buildFrameId"
    /\ origin.dstAddr = 255
    /\ origin.srcArg = <<170>>
    /\ result.value.dstAddr = 255
    /\ result.value.srcAddr = 170

\* C2: for all integers dst and src, buildFrameId returns
\* 0x15810000 + (dst mod 256) * 256 + (src mod 256), a value below 2^29; an
\* omitted src counts as 0xA0, so that buildFrameId(1) is 0x158101A0.
C2_FrameIdValue ==
    call.op = "buildFrameId" =>
        LET dst == call.dstAddr
            src == IF call.srcArg = <<>> THEN 160 ELSE call.srcArg[1]
            id  == result.value
        IN  /\ result.outcome = "returned"
            /\ id.hi \in 0..8191
            /\ id.lo \in 0..65535
            /\ id.hi * 65536 + id.lo = 360775680 + (dst % 256) * 256 + (src % 256)
            /\ (dst = 1 /\ call.srcArg = <<>>) => id = [hi |-> 5505, lo |-> 416]

C2_Witness ==
    /\ call.op = "buildFrameId"
    /\ call.dstAddr = 257
    /\ call.srcArg = <<-1>>
    /\ result.value = [hi |-> 5505, lo |-> 511]

\* C3: for a 16-bit register address reg and an int32 v, buildDataPayload(reg, v,
\* false) returns 8 bytes: 0, 0, reg div 256, reg mod 256, then v in two's
\* complement, most significant byte first; the call does not fail.
C3_IntPayloadLayout ==
    ( /\ call.op = "buildDataPayload"
      /\ ~call.isFloat
      /\ call.value.e = 0
      /\ call.registerAddr \in 0..65535 )
    => LET b == result.value
       IN  /\ result.outcome = "returned"
           /\ Len(b) = 8
           /\ \A i \in 1..8 : IsByte(b[i])
           /\ b[1] = 0
           /\ b[2] = 0
           /\ b[3] = call.registerAddr \div 256
           /\ b[4] = call.registerAddr % 256
           /\ SignedOfBytes(b[5], b[6], b[7], b[8]) = call.value.m

C3_Witness ==
    /\ call.op = "buildDataPayload"
    /\ ~call.isFloat
    /\ call.registerAddr = 1040
    /\ call.value = Dyadic(-2147483647 - 1, 0)
    /\ result.value = <<0, 0, 4, 16, 128, 0, 0, 0>>

\* a payload that decodeFrame was given is one built for a register of the
\* table, with the wire kind (isFloat) that the register's kind asks for
BuiltForKnownRegister ==
    /\ call.op = "decodeFrame"
    /\ origin.op = "buildDataPayload"
    /\ origin.registerAddr \in DOMAIN REGISTERS
    /\ origin.isFloat = isFloatType(REGISTERS[origin.registerAddr])

\* the dyadic v is an int32
IsInt32Value(v) == v.e = 0

\* the dyadic v is a finite binary32 value: at most 24 significant bits, in range
IsFloat32Value(v) ==
    LET r == Reduce(v)
        L == BitLength(IF r.m < 0 THEN -r.m ELSE r.m)
    IN  r.m = 0 \/ (L <= 24 /\ r.e >= -149 /\ L - 1 + r.e <= 127)

\* the binary32 value v rounded to 2 decimals, ties away from zero
Rounded2(v) ==
    LET r == Reduce(v)
        s == IF r.m < 0 THEN -1 ELSE 1
        a == IF r.m < 0 THEN -r.m ELSE r.m
        L == BitLength(a)
        n == RoundShiftHalfUp(a * 100, -r.e)
    IN  IF r.m = 0 THEN NumberValue(0, 0, 0)
        ELSE IF L + r.e > 31 THEN NumberValue(s * a * Pow2(24 - L), 0, r.e - (24 - L))
        ELSE IF r.e >= 0 THEN NumberValue(s * a * Pow2(r.e), 0, 0)
        ELSE NumberValue(s * (n \div 100), s * (n % 100), 0)

\* C4 as stated: decoding a payload built for a register of the table gives back
\* the register and, as the decoded value, the number that was encoded (exactly
\* for int32, rounded to 2 decimals for float32).
C4_RoundTripAsStated ==
    BuiltForKnownRegister =>
        /\ result.outcome = "returned"
        /\ result.value.register = origin.registerAddr
        /\ (~origin.isFloat /\ IsInt32Value(origin.value))
               => result.value.decodedValue = NumberValue(origin.value.m, 0, 0)
        /\ (origin.isFloat /\ IsFloat32Value(origin.value))
               => result.value.decodedValue = Rounded2(origin.value)

\* C4 as amended: the register comes back; a float32 value comes back rounded to
\* 2 decimals; an int32 value comes back as that number when the register has no
\* option label for it and is not the alarm register 0x0100, and as a string
\* otherwise.
C4_RoundTrip ==
    BuiltForKnownRegister =>
        LET reg  == REGISTERS[origin.registerAddr]
            v    == origin.value
            got  == result.value.decodedValue
        IN  /\ result.outcome = "returned"
            /\ result.value.register = origin.registerAddr
            /\ (~origin.isFloat /\ IsInt32Value(v)) =>
                   IF v.m \in DOMAIN reg.options \/ origin.registerAddr = 256
                   THEN got.kind = "string"
                   ELSE got = NumberValue(v.m, 0, 0)
            /\ (origin.isFloat /\ IsFloat32Value(v)) => got = Rounded2(v)

C4_Witness ==
    /\ BuiltForKnownRegister
    /\ origin.registerAddr = 1040
    /\ origin.value = Dyadic(1, -3)
    /\ result.value.register = 1040
    /\ result.value.decodedValue = NumberValue(0, 13, 0)

\* decodeFrame was given a payload of exactly 8 bytes
Decoded8 == call.op = "decodeFrame" /\ Len(call.dataBytes) = 8

\* C5: decoding an 8-byte payload sets the error flag exactly when byte 0 is 0xF2,
\* whatever the identifier, the register and the value bytes.
C5_ErrorIffF2 ==
    Decoded8 =>
        /\ result.outcome = "returned"
        /\ result.value.isError = (call.dataBytes[1] = 242)

C5_Witness ==
    /\ Decoded8
    /\ call.dataBytes[1] = 242
    /\ call.dataBytes[3] * 256 + call.dataBytes[4] = 39321
    /\ result.value.isError

\* C6: the error description depends on byte 0 alone: the F2 text for 0xF2, the F1
\* text (with the error flag false) for 0xF1, empty otherwise; an error flag that
\* is true never comes with an empty description.
C6_DescriptionByReturnCode ==
    Decoded8 =>
        LET rc == call.dataBytes[1]
            f  == result.value
        IN  /\ rc = 242 => f.errorDescription = "F2: Failure, discard frame"
            /\ rc = 241 => (f.errorDescription = "F1: Forced to default value" /\ ~f.isError)
            /\ rc \notin {241, 242} => f.errorDescription = ""
            /\ f.isError => f.errorDescription # ""

C6_Witness ==
    /\ Decoded8
    /\ call.dataBytes[1] = 241
    /\ result.value.errorDescription = "F1: Forced to default value"
    /\ ~result.value.isError

\* C7: decodeFrame given a payload that is not 8 bytes long returns no decoded
\* frame: the call is rejected.
C7_RejectsOtherLengths ==
    (call.op = "decodeFrame" /\ Len(call.dataBytes) # 8) => result.outcome = "threw"

\* the nibbles n without their leading zeros (one digit is always kept)
RECURSIVE DropLeadingZeros(_)
DropLeadingZeros(n) == IF Len(n) > 1 /\ n[1] = 0 THEN DropLeadingZeros(Tail(n)) ELSE n

\* the uppercase hexadecimal digits of the nibbles n, leading zeros dropped
HexOfNibbles(n) == Join([i \in 1..Len(DropLeadingZeros(n)) |->
                            HexDigits[DropLeadingZeros(n)[i] + 1]], "")

NibblesOf(b) == [i \in 1..(2 * Len(b)) |->
                    IF i % 2 = 1 THEN b[(i + 1) \div 2] \div 16 ELSE b[i \div 2] % 16]

\* C8: an 8-byte payload whose register is not in the table decodes, without a
\* throw, to that register and the string "Unknown Reg: 0x" followed by the
\* uppercase hexadecimal of bytes 4-7 as an unsigned integer; the error flag and
\* description follow byte 0 as for any register.
C8_UnknownRegisterFallback ==
    (Decoded8 /\ getUint16(call.dataBytes, 2) \notin DOMAIN REGISTERS) =>
        LET b == call.dataBytes
            f == result.value
        IN  /\ result.outcome = "returned"
            /\ f.register = b[3] * 256 + b[4]
            /\ f.decodedValue =
                   StringValue("Unknown Reg: 0x" \o HexOfNibbles(NibblesOf(SubSeq(b, 5, 8))))
            /\ f.isError = (b[1] = 242)
            /\ f.errorDescription =
                   (IF b[1] = 242 THEN "F2: Failure, discard frame"
                    ELSE IF b[1] = 241 THEN "F1: Forced to default value" ELSE "")

C8_Witness ==
    /\ Decoded8
    /\ SubSeq(call.dataBytes, 3, 8) = <<153, 153, 0, 0, 1, 0>>
    /\ result.value.register = 39321
    /\ result.value.decodedValue = StringValue("Unknown Reg: 0x100")

\* the alarm labels of the bits i .. 31 set in bytes 4-7 of b, joined by ", "
RECURSIVE AlarmLabelsFrom(_, _)
AlarmLabelsFrom(b, i) ==
    IF i > 31 THEN <<>>
    ELSE (IF (b[8 - (i \div 8)] \div Pow2(i % 8)) % 2 = 1 THEN <<ALARM_BITS[i + 1]>> ELSE <<>>)
         \o AlarmLabelsFrom(b, i + 1)

ExpectedAlarmText(b) ==
    IF SubSeq(b, 5, 8) = <<0, 0, 0, 0>> THEN "No Alarms" ELSE Join(AlarmLabelsFrom(b, 0), ", ")

\* decodeFrame was given 8 bytes that name an integer register of the table
DecodedIntRegister ==
    /\ Decoded8
    /\ getUint16(call.dataBytes, 2) \in DOMAIN REGISTERS
    /\ REGISTERS[getUint16(call.dataBytes, 2)].type \in {READ_ONLY_INT, WRITE_ONLY_INT}

\* C9: for an integer register and the int32 v in bytes 4-7: an option label for
\* exactly v (0 included) gives "<v> (<label>)"; else register 0x0100 gives the
\* alarm string; else the number v.  Status 7 is "7 (Running)", Status 5 is 5.
C9_IntegerPriorityChain ==
    DecodedIntRegister =>
        LET b   == call.dataBytes
            reg == REGISTERS[b[3] * 256 + b[4]]
            v   == SignedOfBytes(b[5], b[6], b[7], b[8])
            got == result.value.decodedValue
        IN  /\ got = (IF v \in DOMAIN reg.options
                      THEN StringValue(ToString(v) \o " (" \o reg.options[v] \o ")")
                      ELSE IF b[3] * 256 + b[4] = 256
                           THEN StringValue(ExpectedAlarmText(b))
                           ELSE NumberValue(v, 0, 0))
            /\ (reg.address = 257 /\ v = 7) => got = StringValue("7 (Running)")
            /\ (reg.address = 257 /\ v = 5) => got = NumberValue(5, 0, 0)

C9_Witness ==
    /\ DecodedIntRegister
    /\ SubSeq(call.dataBytes, 3, 8) = <<1, 1, 0, 0, 0, 0>>
    /\ result.value.decodedValue = StringValue("0 (Power-on default)")

\* C10: for register 0x0100 the decoded value is the labels of the bits set in
\* bytes 4-7, bit 0 first up to bit 31, joined by ", ", and "No Alarms" exactly
\* when no bit is set; 0b101 gives "Input Overvoltage, Output Overvoltage".
C10_AlarmBitmap ==
    (Decoded8 /\ getUint16(call.dataBytes, 2) = 256) =>
        LET b   == call.dataBytes
            got == result.value.decodedValue
        IN  /\ got = StringValue(ExpectedAlarmText(b))
            /\ (got.str = "No Alarms") = (SubSeq(b, 5, 8) = <<0, 0, 0, 0>>)
            /\ SubSeq(b, 5, 8) = <<0, 0, 0, 5>>
                   => got.str = "Input Overvoltage, Output Overvoltage"

C10_Witness ==
    /\ Decoded8
    /\ SubSeq(call.dataBytes, 3, 8) = <<1, 0, 128, 0, 0, 5>>
    /\ result.value.decodedValue.str = "Input Overvoltage, Output Overvoltage, Reserved"

\* C11: a transcript whose cleaned text is not 24 characters long, shorter or
\* longer, is a format error: handleDecode does not invoke decodeFrame and
\* leaves no decoded result shown.
C11_OtherLengthsAreErrors ==
    (call.op = "handleDecode" /\ Len(CleanTranscript(call.rawHexInput)) # 24)
        => (call.invoked = <<>> /\ decodedResult = <<>>)

\* the four fields of the identifier by unsigned division: id div 2^24 mod 32,
\* id div 2^16 mod 256, id div 2^8 mod 256, id mod 256
FieldsByDivision(id) ==
    [mxrId      |-> (id.hi \div 256) % 32,
     moduleType |-> id.hi % 256,
     dstAddr    |-> id.lo \div 256,
     srcAddr    |-> id.lo % 256]

\* C12: for every 32-bit identifier, the top three bits set or a foreign
\* manufacturer id or module type included, parseFrameId returns the four
\* fields the unsigned divisions give, none of them negative; decodeFrame
\* reports exactly these fields, returns a frame, and sets the error flag by
\* the return code alone.
C12_FieldsOfAnyIdentifier ==
    /\ call.op = "parseFrameId" =>
          /\ result.value = FieldsByDivision(call.id)
          /\ \A f \in DOMAIN result.value : result.value[f] >= 0
    /\ Decoded8 =>
          /\ result.outcome = "returned"
          /\ [f \in DOMAIN FieldsByDivision(call.id) |-> result.value[f]]
                = FieldsByDivision(call.id)
          /\ result.value.isError = (call.dataBytes[1] = 242)

\* reached: a frame whose identifier has its top bits set and names another
\* manufacturer and module type is decoded, without the error flag
C12_Witness ==
    /\ Decoded8
    /\ call.id.hi >= 32768
    /\ FieldsByDivision(call.id).mxrId # MXR_ID_DEFAULT
    /\ FieldsByDivision(call.id).moduleType # MODULE_TYPE_FIXED
    /\ result.outcome = "returned"
    /\ result.value.dstAddr = call.id.lo \div 256
    /\ ~result.value.isError

\* the decoded number got is the binary32 value M * 2^E, negative when neg,
\* to the nearest hundredth, a tie going away from zero: exact when E >= 0;
\* else, with n the hundredths of got, (2n - 1) * 2^(E - 1) <= 100 * M * 2^E
\* < (2n + 1) * 2^(E - 1)
IsNearestHundredth(got, neg, M, E) ==
    LET s == IF neg THEN -1 ELSE 1
        n == s * (got.units * 100 + got.cents)
    IN  /\ got.cls = "finite"
        /\ IF E >= 0
           THEN /\ got.cents = 0
                /\ got.scale \in {0, E}
                /\ got.units = s * M * Pow2(E - got.scale)
           ELSE /\ got.scale = 0
                /\ s * got.units >= 0 /\ s * got.cents \in 0..99
                /\ IF E <= -32 THEN n = 0
                   ELSE (M * 100) \div Pow2(-E - 1) \in {2 * n - 1, 2 * n}

\* got is the number read from bytes 4-7 of b as a big-endian IEEE-754
\* binary32 (sign, 8 exponent bits, 23 fraction bits), rounded to 2 decimals
IsFloat32Reading(b, got) ==
    LET biased == (b[5] % 128) * 2 + b[6] \div 128
        frac   == (b[6] % 128) * 65536 + b[7] * 256 + b[8]
    IN  /\ got.kind = "number"
        /\ IF biased = 255
           THEN got = (IF frac = 0 THEN InfinityValue(b[5] >= 128) ELSE NaNValue)
           ELSE IF biased = 0
                THEN IsNearestHundredth(got, b[5] >= 128, frac, -149)
                ELSE IsNearestHundredth(got, b[5] >= 128, 8388608 + frac, biased - 150)

\* C13: for a register of a float kind decodeFrame reads bytes 4-7 as a
\* big-endian IEEE-754 binary32 and returns that number rounded to 2 decimals,
\* never an option label or an alarm text; identifier 0x1581A002 with payload
\* F0 00 00 01 44 2F 00 00 decodes to register 0x0001, no error, value 700.
C13_FloatRegisterValue ==
    /\ (Decoded8 /\ result.value.register \in DOMAIN REGISTERS
           /\ REGISTERS[result.value.register].type \in {READ_ONLY_FLOAT, WRITE_ONLY_FLOAT}) =>
          IsFloat32Reading(call.dataBytes, result.value.decodedValue)
    /\ (call.op = "decodeFrame" /\ call.id = [hi |-> 5505, lo |-> 40962]
           /\ call.dataBytes = <<240, 0, 0, 1, 68, 47, 0, 0>>) =>
          /\ result.outcome = "returned"
          /\ result.value.register = 1
          /\ ~result.value.isError
          /\ result.value.decodedValue = NumberValue(700, 0, 0)

\* reached: the frame 0x1581A002 F0 00 00 01 44 2F 00 00 is decoded to 700
C13_Witness ==
    /\ call.op = "decodeFrame"
    /\ call.id = [hi |-> 5505, lo |-> 40962]
    /\ call.dataBytes = <<240, 0, 0, 1, 68, 47, 0, 0>>
    /\ result.outcome = "returned"
    /\ result.value.decodedValue = NumberValue(700, 0, 0)

\* C14: every entry of the Register Table has its key for address and one of
\* the four kinds for kind; decodeFrame gives the alarm text exactly when the
\* register address in bytes 2-3 is 0x0100; and for a register of the table
\* the kind alone chooses between the binary32 and the int32 reading of bytes
\* 4-7, whatever those bytes are.
C14_RegisterTableAndBranches ==
    /\ \A k \in DOMAIN REGISTERS :
          REGISTERS[k].address = k /\ REGISTERS[k].type \in RegisterType
    /\ Decoded8 =>
          LET b       == call.dataBytes
              regAddr == b[3] * 256 + b[4]
              got     == result.value.decodedValue
              v       == SignedOfBytes(b[5], b[6], b[7], b[8])
          IN  /\ IF regAddr = 256 THEN got = StringValue(ExpectedAlarmText(b))
                 ELSE got.kind = "number" \/ got.str # ExpectedAlarmText(b)
              /\ regAddr \in DOMAIN REGISTERS =>
                    IF REGISTERS[regAddr].type \in {READ_ONLY_FLOAT, WRITE_ONLY_FLOAT}
                    THEN IsFloat32Reading(b, got)
                    ELSE \/ got = NumberValue(v, 0, 0)
                         \/ /\ got.kind = "string"
                            /\ regAddr = 256 \/ v \in DOMAIN REGISTERS[regAddr].options

\* reached: the integer register 0x0110 holds the bytes of the float 700, also
\* a bitmap with bits set, and they are read as the integer 0x442F0000
C14_Witness ==
    /\ Decoded8
    /\ SubSeq(call.dataBytes, 3, 8) = <<1, 16, 68, 47, 0, 0>>
    /\ result.value.decodedValue = NumberValue(1143930880, 0, 0)

\* For each value text, the big-endian bytes of the binary32 nearest the
\* number the text starts with, and of the int32 of the integer it starts with
\* (12.5 is 12, 1e3 is 1, 3000000000 wraps); a text that starts with no number
\* has the bytes of 0.
ExpectedEncodings ==
    { [text |-> <<>>,
       float32 |-> <<0, 0, 0, 0>>, int32 |-> <<0, 0, 0, 0>>],
      [text |-> <<"0">>,
       float32 |-> <<0, 0, 0, 0>>, int32 |-> <<0, 0, 0, 0>>],
      [text |-> <<"1">>,
       float32 |-> <<63, 128, 0, 0>>, int32 |-> <<0, 0, 0, 1>>],
      [text |-> <<"7">>,
       float32 |-> <<64, 224, 0, 0>>, int32 |-> <<0, 0, 0, 7>>],
      [text |-> <<"-", "3">>,
       float32 |-> <<192, 64, 0, 0>>, int32 |-> <<255, 255, 255, 253>>],
      [text |-> <<"1", "2", ".", "5">>,
       float32 |-> <<65, 72, 0, 0>>, int32 |-> <<0, 0, 0, 12>>],
      [text |-> <<"0", ".", "1">>,
       float32 |-> <<61, 204, 204, 205>>, int32 |-> <<0, 0, 0, 0>>],
      [text |-> <<"7", "0", "0">>,
       float32 |-> <<68, 47, 0, 0>>, int32 |-> <<0, 0, 2, 188>>],
      [text |-> <<"1", "e", "3">>,
       float32 |-> <<68, 122, 0, 0>>, int32 |-> <<0, 0, 0, 1>>],
      [text |-> <<".", "5">>,
       float32 |-> <<63, 0, 0, 0>>, int32 |-> <<0, 0, 0, 0>>],
      [text |-> <<"0", ".", "0", "0", "5">>,
       float32 |-> <<59, 163, 215, 10>>, int32 |-> <<0, 0, 0, 0>>],
      [text |-> <<"-", "1", "2", ".", "3", "4">>,
       float32 |-> <<193, 69, 112, 164>>, int32 |-> <<255, 255, 255, 244>>],
      [text |-> <<"3", "0", "0", "0", "0", "0", "0", "0", "0", "0">>,
       float32 |-> <<79, 50, 208, 94>>, int32 |-> <<178, 208, 94, 0>>],
      [text |-> <<"2", "1", "4", "7", "4", "8", "3", "6", "4", "7">>,
       float32 |-> <<79, 0, 0, 0>>, int32 |-> <<127, 255, 255, 255>>],
      [text |-> <<"-", "2", "1", "4", "7", "4", "8", "3", "6", "4", "8">>,
       float32 |-> <<207, 0, 0, 0>>, int32 |-> <<128, 0, 0, 0>>],
      [text |-> <<"1", "6", "7", "7", "7", "2", "1", "7">>,
       float32 |-> <<75, 128, 0, 0>>, int32 |-> <<1, 0, 0, 1>>],
      [text |-> <<"1", "0", "0", ".", "1", "2", "5">>,
       float32 |-> <<66, 200, 64, 0>>, int32 |-> <<0, 0, 0, 100>>],
      [text |-> <<"2", ".", "5", "e", "-", "1">>,
       float32 |-> <<62, 128, 0, 0>>, int32 |-> <<0, 0, 0, 2>>],
      [text |-> <<"0", ".", "3", "0", "0", "0", "0", "0", "0", "1">>,
       float32 |-> <<62, 153, 153, 154>>, int32 |-> <<0, 0, 0, 0>>],
      [text |-> <<"2">>,
       float32 |-> <<64, 0, 0, 0>>, int32 |-> <<0, 0, 0, 2>>],
      [text |-> <<"3">>,
       float32 |-> <<64, 64, 0, 0>>, int32 |-> <<0, 0, 0, 3>>],
      [text |-> <<"4">>,
       float32 |-> <<64, 128, 0, 0>>, int32 |-> <<0, 0, 0, 4>>],
      [text |-> <<"6">>,
       float32 |-> <<64, 192, 0, 0>>, int32 |-> <<0, 0, 0, 6>>] }

\* C16: whatever changes of target address, register and value text came
\* before, the generated frame is the one for the current inputs: identifier
\* 0x1581 tt A0 with tt the target modulo 256, bytes 0-1 zero, bytes 2-3 the
\* selected register; bytes 4-7 zero for a read-only register whatever the
\* text, the binary32 of the text for a write-only float register, the int32 of
\* the text for a write-only integer register, unparseable text as 0; and
\* decoding the frame does not set the error flag.
C16_GeneratedFrameIsCurrent ==
    LET regAddr  == CHOOSE k \in DOMAIN REGISTERS :
                        selectedRegAddr = <<"0", "x">> \o HexChars4(k)
        kind     == REGISTERS[regAddr].type
        expected == CHOOSE e \in ExpectedEncodings : e.text = inputValue
        frame    == generatedFrame[1]
        decoded  == decodeFrame(frame.id, frame.data)
    IN  /\ Len(generatedFrame) = 1
        /\ frame.id = [hi |-> 5505, lo |-> (targetAddr % 256) * 256 + 160]
        /\ Len(frame.data) = 8
        /\ SubSeq(frame.data, 1, 4) = <<0, 0, regAddr \div 256, regAddr % 256>>
        /\ SubSeq(frame.data, 5, 8) =
              (IF kind \in {READ_ONLY_FLOAT, READ_ONLY_INT} THEN <<0, 0, 0, 0>>
               ELSE IF kind = WRITE_ONLY_FLOAT THEN expected.float32
               ELSE expected.int32)
        /\ decoded.outcome = "returned"
        /\ ~decoded.value.isError
        /\ decoded.value.register = regAddr

\* reached: after the target, the register and the text were changed, a
\* read-only register is selected with the text 12.5 and the frame carries
\* zeros for target 0xFF
C16_Witness ==
    /\ targetAddr = -1
    /\ selectedRegAddr = <<"0", "x", "0", "0", "0", "1">>
    /\ inputValue = <<"1", "2", ".", "5">>
    /\ generatedFrame = << [id |-> [hi |-> 5505, lo |-> 65440],
                            data |-> <<0, 0, 0, 1, 0, 0, 0, 0>>] >>

\* C15: the codec operations are pure.  Whatever calls were made and in
\* whatever order, the Register Table and the Alarm Bit Table are as they were,
\* every buffer handed to a call holds the bytes it held when it was handed in,
\* and what each call returned is, now, what the same call returns on its own:
\* a later call has changed neither the arguments nor the result of an earlier
\* one.
C15_CodecIsPure ==
    /\ tables = [REGISTERS |-> REGISTERS, ALARM_BITS |-> ALARM_BITS]
    /\ \A i \in 1..Len(held) :
          LET h == held[i]
          IN  /\ h.input # 0 => heap[h.input] = h.inputBytes
              /\ h.op = "buildFrameId" =>
                    h.value = Returned(buildFrameId(h.args[1], h.args[2]))
              /\ h.op = "parseFrameId" => h.value = Returned(parseFrameId(h.args[1]))
              /\ h.op = "buildDataPayload" =>
                    heap[h.output] = buildDataPayload(h.args[1], h.args[2], h.args[3])
              /\ h.op = "decodeFrame" => h.value = decodeFrame(h.args[1], heap[h.input])
              /\ h.op = "frameToDisplayString" =>
                    h.value = Returned(frameToDisplayString([id   |-> h.args[1],
                                                             data |-> heap[h.input]]))

\* reached: decodeFrame was called on a buffer, its caller still holds both, and
\* a payload has been built since, in another buffer
C15_Witness ==
    /\ Len(held) >= 2
    /\ held[1].op = "decodeFrame"
    /\ held[2].op = "buildDataPayload"
    /\ held[1].input # held[2].output
    /\ heap[held[1].input] # heap[held[2].output]
    /\ held[1].value.outcome = "returned"

====
